---- MODULE Spec2Model ----
(***************************************************************************)
(* A model of the Sonata GPIO driver (platform-gpio.hh) and the OpenTitan  *)
(* UART driver (platform-uart.hh).                                         *)
(*                                                                         *)
(* A 32-bit register is modelled as the set of the positions of its set    *)
(* bits (a subset of 0..31): TLC's integers are 32-bit signed, so a value   *)
(* with bit 31 set has no integer of its own.  On this representation      *)
(*   a | b  is  a \cup b,   a & b  is  a \cap b,   a & ~b  is  a \ b,       *)
(*   a ^ b  is  the symmetric difference,  and 0 is {}.                    *)
(***************************************************************************)
EXTENDS Integers, Sequences, FiniteSets

VARIABLES
    OutputMask,      \* template parameter of SonataGpio, fixed per port
    InputMask,       \* template parameter of SonataGpio, fixed per port
    output,          \* SonataGpio::output
    input,           \* SonataGpio::input
    debouncedInput,  \* SonataGpio::debouncedInput
    outputEnable,    \* SonataGpio::outputEnable
    last,            \* the last driver call: its arguments, its result and
                     \* the registers as they were when it was made
    prev,            \* the driver call before `last` (board port only)
    pc,              \* per context: position inside a running output_set
    local,           \* per context: index, value, Bit and the value read
    overlapped,      \* some context read output between another's read and write
    writers,         \* the contexts in the order of their writes to output
    ctrl,            \* OpenTitanUart::ctrl
    fifoStatus,      \* OpenTitanUart::fifoStatus
    rData,           \* OpenTitanUart::rData
    wData,           \* OpenTitanUart::wData
    otherRegs,       \* the nine UART registers no operation of the driver names
    hw,              \* the occupancies the hardware put into fifoStatus
    CPU_TIMER_HZ,    \* the clock frequency the build supplies
    upc,             \* position of the UART caller
    ucall            \* the running or last UART call and what it observed

vars == <<OutputMask, InputMask, output, input, debouncedInput, outputEnable,
          last, prev, pc, local, overlapped, writers,
          ctrl, fifoStatus, rData, wData, otherRegs, hw, CPU_TIMER_HZ,
          upc, ucall>>

gpioVars == <<OutputMask, InputMask, output, input, debouncedInput,
              outputEnable, last, prev>>
raceVars == <<pc, local, overlapped, writers>>
uartVars == <<ctrl, fifoStatus, rData, wData, otherRegs, hw, CPU_TIMER_HZ,
              upc, ucall>>

-----------------------------------------------------------------------------
(* Machine words *)

\* Width of a GPIO or UART register and of `int` on the target (uint32_t).
RegisterWidth == 32

\* Number of values of the uint8_t index parameter of gpio_bit.
Uint8Range == 256

AllBits == 0 .. (RegisterWidth - 1)

\* a ^ b on bit sets.
BitXor(a, b) == (a \ b) \cup (b \ a)

\* The number a set of bit positions (all below 31) denotes.
RECURSIVE ValueFrom(_, _)
ValueFrom(bits, k) ==
    IF k >= RegisterWidth - 1 THEN 0
    ELSE (IF k \in bits THEN 2 ^ k ELSE 0) + ValueFrom(bits, k + 1)

ValueOf(bits) == ValueFrom(bits, 0)

\* The bit set of a number 0 <= n < 2^31.
BitsOf(n) == {b \in 0 .. (RegisterWidth - 2) : (n \div (2 ^ b)) % 2 = 1}

\* w >> k and w << k on a 32-bit word.
ShiftRight(w, k) == {b - k : b \in {x \in w : x >= k}}
ShiftLeft(w, k)  == {b + k : b \in {x \in w : x + k < RegisterWidth}}

-----------------------------------------------------------------------------
(* Bounds of the model *)

\* Indices are sampled up to MaxWrap register widths beyond a pin number
\* (pin + 32 * w) and up to MaxTrunc multiples of 256 beyond that.
MaxWrap == 1
MaxTrunc == 1

\* The pin numbers the sampled indices are built from.
PinSamples == {2, 6, 31}

\* Arguments for a uint8_t index parameter (output_set).
Uint8Indices ==
    {p + RegisterWidth * w : p \in PinSamples, w \in 0 .. MaxWrap}
        \cup {Uint8Range - 1}

\* Arguments for a uint32_t index parameter (output_enable, input_get, ...).
Uint32Indices ==
    {i + Uint8Range * t : i \in Uint8Indices, t \in 0 .. MaxTrunc}

\* Port configurations: the mask of the spec's scenario (0x0F), of
\* SonataGpioPmod (0xFF) and the default (0xFFFFFFFF).
MaskSamples == {0 .. 3, 0 .. 7, AllBits}

\* Inputs of the board port: the register contents above, and one with no
\* switch bit set and the bits next to the switch group set.
BoardInputSamples == {{}, AllBits, {2, 5, 31}, {8, 12, 16}}

\* Register contents a run starts from or the hardware presents.
WordSamples == {{}, AllBits, {2, 5, 31}}

-----------------------------------------------------------------------------
(* SonataGpio *)

\* The implicit conversion of an index argument to gpio_bit's uint8_t.
ToUint8(index) == index % Uint8Range

\* gpio_bit(index, mask) = (1 << index) & mask, with `1` an int.  For
\* index < 32 the shift is defined.  For 32 <= index <= 255 it is undefined
\* behaviour: the result is the set of the outcomes a build produces, the
\* shift count taken modulo 32 (RISC-V sll, x86 shl) or the bit shifted out.
\* The operator yields the set of possible results.
gpio_bit_nomask(index, mask) ==
    IF ToUint8(index) < RegisterWidth THEN {{ToUint8(index)}}
    ELSE {{}, {ToUint8(index) % RegisterWidth}}
gpio_bit(index, mask) ==
    IF ToUint8(index) < RegisterWidth
    THEN {{ToUint8(index)} \cap mask}
    ELSE {{}, {ToUint8(index) % RegisterWidth} \cap mask}

\* The two branches of output_set and output_enable:
\* reg | Bit when value is true, reg & ~Bit otherwise.
write_bit_noinvert(reg, Bit, value) ==
    IF value THEN reg \cup Bit ELSE reg \cap Bit
write_bit_overwrite(reg, Bit, value) ==
    IF value THEN Bit ELSE reg \ Bit
write_bit(reg, Bit, value) ==
    IF value THEN reg \cup Bit ELSE reg \ Bit

NoCall == [op |-> "none", index |-> 0, value |-> FALSE, ret |-> FALSE,
           output |-> {}, outputEnable |-> {}, input |-> {},
           debouncedInput |-> {}]

\* What the board port keeps of the call before the last one.
Brief(c) == [op |-> c.op, index |-> c.index, output |-> c.output]

\* The record of a call made in the current state.
Call(op, index, value, ret) ==
    [op |-> op, index |-> index, value |-> value, ret |-> ret,
     output |-> output, outputEnable |-> outputEnable, input |-> input,
     debouncedInput |-> debouncedInput]

output_set(index, value) ==
    \E Bit \in gpio_bit(index, OutputMask) :
        /\ output' = write_bit(output, Bit, value)
        /\ last' = Call("output_set", index, value, Bit /= {})
        /\ UNCHANGED <<OutputMask, InputMask, input, debouncedInput,
                       outputEnable, prev>>
        /\ UNCHANGED <<raceVars, uartVars>>

output_enable(index, enable) ==
    \E Bit \in gpio_bit(index, OutputMask) :
        /\ outputEnable' = write_bit(outputEnable, Bit, enable)
        /\ last' = Call("output_enable", index, enable, Bit /= {})
        /\ UNCHANGED <<OutputMask, InputMask, input, debouncedInput,
                       output, prev>>
        /\ UNCHANGED <<raceVars, uartVars>>

input_get(index) ==
    \E Bit \in gpio_bit(index, InputMask) :
        /\ last' = Call("input_get", index, FALSE, (input \cap Bit) /= {})
        /\ UNCHANGED <<OutputMask, InputMask, output, input, debouncedInput,
                       outputEnable, prev>>
        /\ UNCHANGED <<raceVars, uartVars>>

input_debounced_get(index) ==
    \E Bit \in gpio_bit(index, InputMask) :
        /\ last' = Call("input_debounced_get", index, FALSE,
                        (debouncedInput \cap Bit) /= {})
        /\ UNCHANGED <<OutputMask, InputMask, output, input, debouncedInput,
                       outputEnable, prev>>
        /\ UNCHANGED <<raceVars, uartVars>>

\* The pins drive the two input registers; the driver only reads them.
HwInput ==
    /\ input' \in WordSamples
    /\ debouncedInput' \in WordSamples
    /\ UNCHANGED <<OutputMask, InputMask, output, outputEnable, last, prev>>
    /\ UNCHANGED <<raceVars, uartVars>>

RaceIdle ==
    /\ pc = [c \in {1, 2} |-> "idle"]
    /\ local = [c \in {1, 2} |-> [index |-> 0, value |-> FALSE, Bit |-> {},
                                  read |-> {}]]
    /\ overlapped = FALSE
    /\ writers = <<>>

\* The clock of the spec's example, 50 MHz.
SpecClock == 50000000

NoUartCall == [op |-> "none", arg |-> {}, ret |-> FALSE, byte |-> {},
               tx |-> 0, rx |-> 0, spun |-> FALSE, accesses |-> 0,
               done |-> FALSE]

UartIdle ==
    /\ ctrl = {}
    /\ fifoStatus = {}
    /\ rData = {}
    /\ wData = {}
    /\ otherRegs = {}
    /\ hw = [tx |-> 0, rx |-> 0, rest |-> {}]
    /\ CPU_TIMER_HZ = SpecClock
    /\ upc = "idle"
    /\ ucall = NoUartCall

\* A generic port whose output side is exercised.
InitOut ==
    /\ OutputMask \in MaskSamples
    /\ InputMask = AllBits
    /\ output \in WordSamples
    /\ outputEnable \in {{}, AllBits}
    /\ input = {}
    /\ debouncedInput = {}
    /\ last = NoCall
    /\ prev = Brief(NoCall)
    /\ RaceIdle
    /\ UartIdle

NextOut ==
    \/ \E index \in Uint8Indices, value \in BOOLEAN : output_set(index, value)
    \/ \E index \in Uint32Indices, enable \in BOOLEAN :
           output_enable(index, enable)

SpecOut == InitOut /\ [][NextOut]_vars

\* A generic port whose input side is exercised.
InitIn ==
    /\ OutputMask = AllBits
    /\ InputMask \in MaskSamples
    /\ output = {}
    /\ outputEnable = {}
    /\ input \in WordSamples
    /\ debouncedInput \in WordSamples
    /\ last = NoCall
    /\ prev = Brief(NoCall)
    /\ RaceIdle
    /\ UartIdle

NextIn ==
    \/ \E index \in Uint32Indices : input_get(index)
    \/ \E index \in Uint32Indices : input_debounced_get(index)
    \/ HwInput

SpecIn == InitIn /\ [][NextIn]_vars


-----------------------------------------------------------------------------
(* SonataGpioBoard : SonataGpio<0x000000FF, 0x0001FFFF> *)

FirstLED == 0
LastLED == 7
FirstSwitch == 0
LastSwitch == 7

\* LEDMask = Outputs::Leds = 0xFF << 0, SwitchMask = Inputs::DipSwitches.
LEDMask == 0 .. 7
SwitchMask == 0 .. 7
BoardOutputMask == 0 .. 7
BoardInputMask == 0 .. 16

\* The sum index + FirstLED of two uint32_t, for the sampled indices.
led_bit_nomask(index) == gpio_bit_nomask(index + FirstLED, LEDMask)
led_bit(index) == gpio_bit(index + FirstLED, LEDMask)

switch_bit(index) == gpio_bit(index + FirstSwitch, SwitchMask)

BoardFrame ==
    /\ UNCHANGED <<OutputMask, InputMask, input, debouncedInput, outputEnable>>
    /\ UNCHANGED <<raceVars, uartVars>>

led_on(index) ==
    \E Bit \in led_bit(index) :
        /\ output' = output \cup Bit
        /\ last' = Call("led_on", index, FALSE, FALSE)
        /\ prev' = Brief(last)
        /\ BoardFrame

led_off(index) ==
    \E Bit \in led_bit(index) :
        /\ output' = output \ Bit
        /\ last' = Call("led_off", index, FALSE, FALSE)
        /\ prev' = Brief(last)
        /\ BoardFrame

led_toggle(index) ==
    \E Bit \in led_bit(index) :
        /\ output' = BitXor(output, Bit)
        /\ last' = Call("led_toggle", index, FALSE, FALSE)
        /\ prev' = Brief(last)
        /\ BoardFrame

read_switch(index) ==
    \E Bit \in switch_bit(index) :
        /\ last' = Call("read_switch", index, FALSE, (input \cap Bit) /= {})
        /\ prev' = Brief(last)
        /\ UNCHANGED output
        /\ BoardFrame

\* The switches and the joystick drive the board port's input register.
HwBoardInput ==
    /\ input' \in BoardInputSamples
    /\ UNCHANGED <<OutputMask, InputMask, output, debouncedInput,
                   outputEnable, last, prev>>
    /\ UNCHANGED <<raceVars, uartVars>>

\* LED and switch indices: inside the group, its last member, the first
\* index past it, the top bit of the register, one past the register width,
\* one past the range of uint8_t, and the first index past the group again
\* beyond that range.
BoardIndices == {2, LastLED, LastLED + 1, RegisterWidth - 1,
                 RegisterWidth + 2, Uint8Range + 2,
                 Uint8Range + LastLED + 1}

InitBoard ==
    /\ OutputMask = BoardOutputMask
    /\ InputMask = BoardInputMask
    /\ output \in WordSamples
    /\ outputEnable = {}
    /\ input \in BoardInputSamples
    /\ debouncedInput = {}
    /\ last = NoCall
    /\ prev = Brief(NoCall)
    /\ RaceIdle
    /\ UartIdle

NextBoard ==
    \/ \E index \in BoardIndices : led_on(index)
    \/ \E index \in BoardIndices : led_off(index)
    \/ \E index \in BoardIndices : led_toggle(index)
    \/ \E index \in BoardIndices : read_switch(index)
    \/ HwBoardInput

SpecBoard == InitBoard /\ [][NextBoard]_vars

-----------------------------------------------------------------------------
(* output_set run by two contexts on one port, without synchronization *)

Contexts == {1, 2}

Other(c) == CHOOSE d \in Contexts : d /= c

\* Entry of output_set: line 48 computes Bit from the arguments alone.
Enter(c, index, value) ==
    /\ pc[c] = "idle"
    /\ \E Bit \in gpio_bit(index, OutputMask) :
           local' = [local EXCEPT ![c] = [index |-> index, value |-> value,
                                          Bit |-> Bit, read |-> {}]]
    /\ pc' = [pc EXCEPT ![c] = "read"]
    /\ UNCHANGED <<overlapped, writers, gpioVars, uartVars>>

\* The volatile read of output on the right-hand side of line 51 or 55.
Read(c) ==
    /\ pc[c] = "read"
    /\ local' = [local EXCEPT ![c].read = output]
    /\ pc' = [pc EXCEPT ![c] = "write"]
    /\ overlapped' = (overlapped \/ pc[Other(c)] = "write")
    /\ UNCHANGED <<writers, gpioVars, uartVars>>

\* The volatile write of output of line 51 or 55, and the return.
Write(c) ==
    /\ pc[c] = "write"
    /\ output' = write_bit(local[c].read, local[c].Bit, local[c].value)
    /\ pc' = [pc EXCEPT ![c] = "done"]
    /\ writers' = Append(writers, c)
    /\ UNCHANGED <<local, overlapped, OutputMask, InputMask, input,
                   debouncedInput, outputEnable, last, prev, uartVars>>

InitRace ==
    /\ OutputMask \in MaskSamples
    /\ InputMask = AllBits
    /\ output \in WordSamples
    /\ outputEnable = {}
    /\ input = {}
    /\ debouncedInput = {}
    /\ last = NoCall
    /\ prev = Brief(NoCall)
    /\ RaceIdle
    /\ UartIdle

NextRace ==
    \/ \E c \in Contexts, index \in Uint8Indices, value \in BOOLEAN :
           Enter(c, index, value)
    \/ \E c \in Contexts : Read(c)
    \/ \E c \in Contexts : Write(c)

SpecRace == InitRace /\ [][NextRace]_vars

-----------------------------------------------------------------------------
(* OpenTitanUart *)

\* Template parameter DefaultBaudRate.
DefaultBaudRate == 115200

\* A 64-bit value is the set of its set bits, a subset of 0..63.
Uint64Width == 64

\* static_cast<uint64_t>(w) << k: no bit of a 32-bit w is lost for k = 20.
ShiftLeft64(w, k) == {b + k : b \in {x \in w : x + k < Uint64Width}}

\* n / d on a 64-bit dividend, by binary long division from bit k down;
\* r is the running remainder (below d, so 2 * r + 1 fits an integer).
RECURSIVE LongDiv(_, _, _, _)
LongDiv(n, d, k, r) ==
    IF k < 0 THEN {}
    ELSE LET r2 == 2 * r + (IF k \in n THEN 1 ELSE 0)
         IN  IF r2 >= d
             THEN {k} \cup LongDiv(n, d, k - 1, r2 - d)
             ELSE LongDiv(n, d, k - 1, r2)

Div64(n, d) == LongDiv(n, d, Uint64Width - 1, 0)

\* const uint32_t NCO = (static_cast<uint64_t>(baudRate) << 20) / CPU_TIMER_HZ
\* (the quotient converted to uint32_t).
nco_shift32(baudRate, hz) ==
    Div64(ShiftLeft(baudRate, 20), hz) \cap AllBits
nco(baudRate, hz) ==
    Div64(ShiftLeft64(baudRate, 20), hz) \cap AllBits

\* (NCO << 16) | 0b11 on 32 bits.
ctrl_value(NCO) == ShiftLeft(NCO, 16) \cup {0, 1}

\* (fifoStatus & 0xff) < 32
can_write_inclusive(fifo) == ValueOf(fifo \cap (0 .. 7)) <= 32
can_write(fifo) == ValueOf(fifo \cap (0 .. 7)) < 32

\* ((fifoStatus >> 16) & 0xff) > 0
can_read_unshifted(fifo) == ValueOf(fifo \cap (0 .. 7)) > 0
can_read(fifo) == ValueOf(ShiftRight(fifo, 16) \cap (0 .. 7)) > 0

\* A call starting in the current state.
UCall(op, arg) == [NoUartCall EXCEPT !.op = op, !.arg = arg]

init(baudRate) ==
    /\ upc = "idle"
    /\ ctrl' = ctrl_value(nco(baudRate, CPU_TIMER_HZ))
    /\ ucall' = [UCall("init", baudRate) EXCEPT !.done = TRUE]
    /\ UNCHANGED <<fifoStatus, rData, wData, otherRegs, hw, CPU_TIMER_HZ,
                   upc, gpioVars, raceVars>>

can_write_call ==
    /\ upc = "idle"
    /\ ucall' = [UCall("can_write", {}) EXCEPT
                    !.ret = can_write(fifoStatus), !.tx = hw.tx,
                    !.done = TRUE]
    /\ UNCHANGED <<ctrl, fifoStatus, rData, wData, otherRegs, hw,
                   CPU_TIMER_HZ, upc, gpioVars, raceVars>>

can_read_call ==
    /\ upc = "idle"
    /\ ucall' = [UCall("can_read", {}) EXCEPT
                    !.ret = can_read(fifoStatus), !.rx = hw.rx,
                    !.done = TRUE]
    /\ UNCHANGED <<ctrl, fifoStatus, rData, wData, otherRegs, hw,
                   CPU_TIMER_HZ, upc, gpioVars, raceVars>>

\* blocking_write(byte): entry.
blocking_write(byte) ==
    /\ upc = "idle"
    /\ upc' = "write_poll"
    /\ ucall' = UCall("blocking_write", byte)
    /\ UNCHANGED <<ctrl, fifoStatus, rData, wData, otherRegs, hw,
                   CPU_TIMER_HZ, gpioVars, raceVars>>

\* One evaluation of the loop condition !can_write() of line 53.
blocking_write_poll ==
    /\ upc = "write_poll"
    /\ upc' = IF can_write(fifoStatus) THEN "write_store" ELSE "write_poll"
    /\ ucall' = [ucall EXCEPT !.ret = can_write(fifoStatus),
                              !.tx = hw.tx,
                              !.spun = @ \/ ~can_write(fifoStatus)]
    /\ UNCHANGED <<ctrl, fifoStatus, rData, wData, otherRegs, hw,
                   CPU_TIMER_HZ, gpioVars, raceVars>>

\* wData = byte (line 54) and the return.
blocking_write_store ==
    /\ upc = "write_store"
    /\ wData' = ucall.arg
    /\ upc' = "idle"
    /\ ucall' = [ucall EXCEPT !.accesses = @ + 1, !.done = TRUE]
    /\ UNCHANGED <<ctrl, fifoStatus, rData, otherRegs, hw, CPU_TIMER_HZ,
                   gpioVars, raceVars>>

\* blocking_read(): entry.
blocking_read ==
    /\ upc = "idle"
    /\ upc' = "read_poll"
    /\ ucall' = UCall("blocking_read", {})
    /\ UNCHANGED <<ctrl, fifoStatus, rData, wData, otherRegs, hw,
                   CPU_TIMER_HZ, gpioVars, raceVars>>

\* One evaluation of the loop condition !can_read() of line 62.
blocking_read_poll ==
    /\ upc = "read_poll"
    /\ upc' = IF can_read(fifoStatus) THEN "read_load" ELSE "read_poll"
    /\ ucall' = [ucall EXCEPT !.ret = can_read(fifoStatus),
                              !.rx = hw.rx,
                              !.spun = @ \/ ~can_read(fifoStatus)]
    /\ UNCHANGED <<ctrl, fifoStatus, rData, wData, otherRegs, hw,
                   CPU_TIMER_HZ, gpioVars, raceVars>>

\* return rData (line 63), converted to uint8_t.
blocking_read_load ==
    /\ upc = "read_load"
    /\ upc' = "idle"
    /\ ucall' = [ucall EXCEPT !.byte = rData \cap (0 .. 7),
                              !.accesses = @ + 1, !.done = TRUE]
    /\ UNCHANGED <<ctrl, fifoStatus, rData, wData, otherRegs, hw,
                   CPU_TIMER_HZ, gpioVars, raceVars>>

\* Occupancies the hardware reports: the ends of both ranges of can_write
\* (0, 31 | 32, 255) and their neighbours, an empty and a non-empty
\* receive FIFO, and the bits of fifoStatus outside both fields.
TxSamples == {0, 31, 32, 33, 255}
RxSamples == {0, 1, 255}
RestSamples == {{}, (8 .. 15) \cup (24 .. 31)}

\* fifoStatus for given occupancies: transmit level in bits 0-7, receive
\* level in bits 16-23.
FifoWord(h) == BitsOf(h.tx) \cup ShiftLeft(BitsOf(h.rx), 16) \cup h.rest

\* Every sampled state of the two FIFOs, and the ones the blocking
\* transfers run against: both sides of each threshold, other bits clear
\* or set.
HwStates == [tx : TxSamples, rx : RxSamples, rest : RestSamples]
TransferHwStates == [tx : {0, 31, 32, 255}, rx : {0, 1}, rest : RestSamples]

\* The hardware fills and drains its FIFOs at its own pace.
HwFifo(states) ==
    /\ hw' \in states
    /\ fifoStatus' = FifoWord(hw')
    /\ UNCHANGED <<ctrl, rData, wData, otherRegs, CPU_TIMER_HZ, upc, ucall,
                   gpioVars, raceVars>>

\* Baud rates: none, common ones, the two around the first NCO that no
\* longer fits 16 bits at 50 MHz, a rate past it, 2^31 and 2^32 - 1.
BaudSamples ==
    {BitsOf(b) : b \in {0, 9600, DefaultBaudRate, 921600, 3124999, 3125000,
                        4000000}}
        \cup {{31}, AllBits}

ClockSamples == {SpecClock, SpecClock \div 2}

ByteSamples == {{0, 2, 5, 7}, 0 .. 7}

GpioIdle ==
    /\ OutputMask = AllBits
    /\ InputMask = AllBits
    /\ output = {}
    /\ outputEnable = {}
    /\ input = {}
    /\ debouncedInput = {}
    /\ last = NoCall
    /\ prev = Brief(NoCall)

InitUart ==
    /\ ctrl = AllBits
    /\ hw \in HwStates
    /\ fifoStatus = FifoWord(hw)
    /\ rData = {}
    /\ wData = {}
    /\ otherRegs = {}
    /\ CPU_TIMER_HZ \in ClockSamples
    /\ upc = "idle"
    /\ ucall = NoUartCall
    /\ GpioIdle
    /\ RaceIdle

\* Configuration and the two polls.
NextUart ==
    \/ \E baudRate \in BaudSamples : init(baudRate)
    \/ can_write_call
    \/ can_read_call
    \/ HwFifo(HwStates)

SpecUart == InitUart /\ [][NextUart]_vars

\* The blocking transfers.
InitTransfer ==
    /\ ctrl = ctrl_value(nco(BitsOf(DefaultBaudRate), SpecClock))
    /\ hw \in TransferHwStates
    /\ fifoStatus = FifoWord(hw)
    /\ rData \in ByteSamples
    /\ wData = {}
    /\ otherRegs = {}
    /\ CPU_TIMER_HZ = SpecClock
    /\ upc = "idle"
    /\ ucall = NoUartCall
    /\ GpioIdle
    /\ RaceIdle

NextTransfer ==
    \/ \E byte \in ByteSamples : blocking_write(byte)
    \/ blocking_write_poll
    \/ blocking_write_store
    \/ blocking_read
    \/ blocking_read_poll
    \/ blocking_read_load
    \/ HwFifo(TransferHwStates)

\* A call that has started keeps executing: the processor runs the spin
\* loop and the statement after it.  Nothing is assumed of the hardware.
SpecTransfer ==
    /\ InitTransfer
    /\ [][NextTransfer]_vars
    /\ WF_vars(blocking_write_poll)
    /\ WF_vars(blocking_write_store)
    /\ WF_vars(blocking_read_poll)
    /\ WF_vars(blocking_read_load)

-----------------------------------------------------------------------------
(* Properties of the GPIO ports *)

\* Index i names a pin of the mask: i is below the register width and bit i
\* of the mask is set.
ValidPin(i, mask) == i < RegisterWidth /\ i \in mask

\* C1: output_set with an index that is not a valid output pin (bit not in
\* OutputMask, or index at or beyond the register width) returns false and
\* leaves output as it was.
C1_InvalidIndexRejected ==
    (last.op = "output_set" /\ ~ValidPin(last.index, OutputMask))
        => (last.ret = FALSE /\ output = last.output)

\* C2: output_set with a valid output index returns true and leaves output
\* with exactly that bit set (value true) or cleared (value false), every
\* other bit as before, whether or not the register changed.
C2_ValidIndexWritesOneBit ==
    (last.op = "output_set" /\ ValidPin(last.index, OutputMask))
        => /\ last.ret = TRUE
           /\ output \ {last.index} = last.output \ {last.index}
           /\ (last.index \in output) = last.value

\* A valid pin that was already set is set again: the call returns true
\* although the register did not change.
C2_Witness ==
    /\ last.op = "output_set"
    /\ ValidPin(last.index, OutputMask)
    /\ last.value
    /\ last.index \in last.output
    /\ output = last.output
    /\ last.ret

\* C3: output_enable returns true iff bit i is in OutputMask, writes exactly
\* bit i of outputEnable for a valid i, nothing for an invalid i, and never
\* touches output; output_set never touches outputEnable.
C3_OutputEnableMirrorsOutputSet ==
    /\ last.op = "output_enable" =>
          /\ last.ret = ValidPin(last.index, OutputMask)
          /\ output = last.output
          /\ IF ValidPin(last.index, OutputMask)
             THEN /\ outputEnable \ {last.index}
                        = last.outputEnable \ {last.index}
                  /\ (last.index \in outputEnable) = last.value
             ELSE outputEnable = last.outputEnable
    /\ last.op = "output_set" => outputEnable = last.outputEnable

\* C4: input_get and input_debounced_get return false for an index outside
\* InputMask whatever the register holds, the value of bit i of their own
\* register for an index inside it, and write no register.
C4_InputReadsMasked ==
    [][(last' /= last /\ last'.op \in {"input_get", "input_debounced_get"})
         => LET reg == IF last'.op = "input_get" THEN input
                       ELSE debouncedInput
            IN  /\ last'.ret = (ValidPin(last'.index, InputMask)
                                  /\ last'.index \in reg)
                /\ UNCHANGED <<output, input, debouncedInput,
                               outputEnable>>]_vars

\* C9: two led_toggle calls in succession with the same index restore
\* output, and for a valid LED index the value in between differs from the
\* original in exactly bit i + FirstLED.
C9_ToggleTwiceRestores ==
    /\ (last.op = "led_toggle" /\ prev.op = "led_toggle"
            /\ last.index = prev.index)
          => output = prev.output
    /\ (last.op = "led_toggle" /\ last.index \in 0 .. (LastLED - FirstLED))
          => BitXor(output, last.output) = {last.index + FirstLED}

\* The LED index is past the LED group.
PastLEDs(index) == index > LastLED - FirstLED
PastSwitches(index) == index > LastSwitch - FirstSwitch

\* C10 as stated: an LED call with an index past the LED group changes a
\* bit of output outside the group (led_toggle always flips the bit it
\* computes), and read_switch with an index past the switch group reads
\* the input bit at that position, which is not a switch bit.
C10_OutOfRangeCorruptsNeighbours ==
    /\ (last.op = "led_toggle" /\ PastLEDs(last.index)
            /\ last.index + FirstLED < RegisterWidth)
          => (output \ LEDMask) /= (last.output \ LEDMask)
    /\ (last.op = "read_switch" /\ PastSwitches(last.index)
            /\ last.index + FirstSwitch < RegisterWidth)
          => last.ret = (last.index + FirstSwitch \in last.input)

\* The shift of gpio_bit is defined for this pin number (its low eight
\* bits are below the register width).
ShiftDefined(pin) == ToUint8(pin) < RegisterWidth

\* C10 amended: an LED call with an index past the LED group is not
\* rejected, but where the shift of gpio_bit is defined it never changes a
\* bit of output outside the LED group, and it leaves output unchanged
\* when index + FirstLED is below the register width; read_switch with an
\* index past the switch group never reads a non-switch bit, and returns
\* false when index + FirstSwitch is below the register width.
C10_OutOfRangeIsMaskedOut ==
    /\ (last.op \in {"led_on", "led_off", "led_toggle"}
            /\ PastLEDs(last.index) /\ ShiftDefined(last.index + FirstLED))
          => /\ (output \ LEDMask) = (last.output \ LEDMask)
             /\ last.index + FirstLED < RegisterWidth
                   => output = last.output
    /\ (last.op = "read_switch" /\ PastSwitches(last.index)
            /\ ShiftDefined(last.index + FirstSwitch))
          => /\ last.ret => (last.input \cap SwitchMask) /= {}
             /\ last.index + FirstSwitch < RegisterWidth
                   => last.ret = FALSE

\* led_on of the first index past the LED group, with that bit of output
\* clear before: the bit is still clear afterwards; and a read_switch past
\* the group that returned false although the input bit there is set.
C10_Witness ==
    \/ /\ last.op = "led_on"
       /\ last.index = LastLED - FirstLED + 1
       /\ last.index + FirstLED \notin last.output
       /\ output = last.output
    \/ /\ last.op = "read_switch"
       /\ last.index = LastSwitch - FirstSwitch + 1
       /\ last.index + FirstSwitch \in last.input
       /\ last.ret = FALSE


-----------------------------------------------------------------------------
(* Properties of concurrent output_set calls *)

BothDone == \A c \in Contexts : pc[c] = "done"

\* The two calls were for two different valid output pins.
DistinctValidPins ==
    /\ local[1].index /= local[2].index
    /\ \A c \in Contexts : ValidPin(local[c].index, OutputMask)

\* The update context c asked for is in output.
Present(c) == (local[c].index \in output) = local[c].value

\* C5: after two output_set calls for different valid pins the update of
\* the later writer is always present, and both updates are present
\* whenever neither call read output between the other's read and write
\* (every serial execution); an update is lost only by a later write
\* overwriting it after an interleaved read.
C5_SerialKeepsBothLastWriteWins ==
    (BothDone /\ DistinctValidPins)
        => /\ Present(writers[2])
           /\ ~overlapped => (Present(1) /\ Present(2))

\* An interleaving after which only the later writer's update is present.
C5_Witness ==
    /\ BothDone
    /\ DistinctValidPins
    /\ overlapped
    /\ Present(writers[2])
    /\ ~Present(writers[1])


-----------------------------------------------------------------------------
(* Properties of the UART *)

UartRegs == <<ctrl, fifoStatus, rData, wData, otherRegs>>

\* floor(baudRate * 2^20 / hz) in integers: the quotient and remainder of
\* the upper 31 bits of baudRate, doubled once with the lowest bit of
\* baudRate carried in and then twenty times more.
RECURSIVE Doubled(_, _, _, _, _)
Doubled(q, r, hz, carry, n) ==
    IF n = 0 THEN q
    ELSE Doubled(2 * q + ((2 * r + carry) \div hz), (2 * r + carry) % hz,
                 hz, 0, n - 1)

NcoRef(baudRate, hz) ==
    LET h == ValueOf(ShiftRight(baudRate, 1))
    IN  Doubled(h \div hz, h % hz, hz, IF 0 \in baudRate THEN 1 ELSE 0, 21)

\* The step is a call of init.
InitStep == ucall' /= ucall /\ ucall'.op = "init"

\* What C7 says of init apart from the content of bits 16-31: bits 0 and 1
\* of ctrl are set, bits 2-15 are clear, the example of the spec gives
\* NCO = 2415 and ctrl = (2415 << 16) | 3, and no other register is written.
InitCommon ==
    /\ {0, 1} \subseteq ctrl'
    /\ ctrl' \cap (2 .. 15) = {}
    /\ (ucall'.arg = BitsOf(DefaultBaudRate) /\ CPU_TIMER_HZ = SpecClock)
          => /\ NcoRef(ucall'.arg, CPU_TIMER_HZ) = 2415
             /\ ctrl' = BitsOf(2415 * 65536 + 3)
    /\ UNCHANGED <<fifoStatus, rData, wData, otherRegs>>

\* C7 as stated: after init(baudRate), for every 32-bit baudRate, bits
\* 16-31 of ctrl hold NCO = floor((baudRate << 20) / cpuFrequencyHz).
C7_CtrlHoldsNco ==
    [][InitStep =>
          /\ InitCommon
          /\ ValueOf(ShiftRight(ctrl', 16))
                = NcoRef(ucall'.arg, CPU_TIMER_HZ)]_vars

\* C7 amended: init writes ctrl = (NCO << 16) | 0b11 on 32 bits, so bits
\* 16-31 of ctrl hold the low 16 bits of NCO: NCO itself exactly when
\* NCO < 2^16 (at 50 MHz, for baudRate below 3,125,000).
C7_CtrlHoldsLow16OfNco ==
    [][InitStep =>
          /\ InitCommon
          /\ ValueOf(ShiftRight(ctrl', 16))
                = NcoRef(ucall'.arg, CPU_TIMER_HZ) % 65536]_vars

\* init(3125000) at 50 MHz: NCO is 65536 and bits 16-31 of ctrl are zero.
C7_Witness ==
    /\ ucall.op = "init"
    /\ ucall.arg = BitsOf(3125000)
    /\ CPU_TIMER_HZ = SpecClock
    /\ ctrl = {0, 1}

\* C8: can_write is true iff the transmit occupancy is below 32, can_read
\* iff the receive occupancy is above zero, whatever the other field and
\* the remaining bits of fifoStatus hold, and neither writes a register.
C8_PollsDecodeOwnField ==
    [][/\ (ucall' /= ucall /\ ucall'.op = "can_write")
            => (ucall'.ret = (hw.tx < 32) /\ UNCHANGED UartRegs)
       /\ (ucall' /= ucall /\ ucall'.op = "can_read")
            => (ucall'.ret = (hw.rx > 0) /\ UNCHANGED UartRegs)]_vars

\* can_write returned false at an occupancy of exactly 32, with the receive
\* FIFO non-empty and the bits outside both fields set.
C8_Witness ==
    /\ ucall.op = "can_write"
    /\ ucall.tx = 32
    /\ ucall.ret = FALSE
    /\ hw = [tx |-> 32, rx |-> 255, rest |-> (8 .. 15) \cup (24 .. 31)]

InWrite == upc \in {"write_poll", "write_store"}
InRead == upc \in {"read_poll", "read_load"}
WriteReturned == ucall.op = "blocking_write" /\ ucall.done
ReadReturned == ucall.op = "blocking_read" /\ ucall.done

\* The data register is accessed once per call, at its end, and only after
\* a poll that found the transmit FIFO below 32 (the receive FIFO
\* non-empty).
TransferSafe ==
    /\ ucall.op = "blocking_write" =>
          /\ ucall.accesses = (IF ucall.done THEN 1 ELSE 0)
          /\ (upc = "write_store" \/ ucall.done)
                => (ucall.ret /\ ucall.tx < 32)
          /\ ucall.done => (upc = "idle" /\ wData = ucall.arg)
    /\ ucall.op = "blocking_read" =>
          /\ ucall.accesses = (IF ucall.done THEN 1 ELSE 0)
          /\ (upc = "read_load" \/ ucall.done)
                => (ucall.ret /\ ucall.rx > 0)
          /\ ucall.done => (upc = "idle" /\ ucall.byte = rData \cap (0 .. 7))

\* C6: blocking_write stores the byte once, and blocking_read loads rData,
\* only after a successful poll; wData changes only by that store; a call
\* never returns while the hardware keeps the transmit FIFO at 32 or above
\* (the receive FIFO empty); and a call that is polling returns whenever
\* the hardware has the condition true at its polls, that is, holds it
\* until the next poll, whatever the FIFO does after that poll (so also
\* once the hardware keeps the condition true for good).
C6_BlockingTransfers ==
    /\ []TransferSafe
    /\ [][wData' /= wData => (upc = "write_store" /\ wData' = ucall.arg)]_vars
    /\ [](hw.tx >= 32) => []~WriteReturned
    /\ [](hw.rx = 0) => []~ReadReturned
    /\ []((upc = "write_poll" /\ [](upc = "write_poll" => hw.tx < 32))
            => <>WriteReturned)
    /\ []((upc = "read_poll" /\ [](upc = "read_poll" => hw.rx > 0))
            => <>ReadReturned)
    /\ [](upc = "write_store" => <>WriteReturned)
    /\ [](upc = "read_load" => <>ReadReturned)
    /\ <>[](hw.tx < 32) => [](InWrite => <>WriteReturned)
    /\ <>[](hw.rx > 0) => [](InRead => <>ReadReturned)

\* A blocking_write that polled a full FIFO at least once, then polled it
\* below 32 and returned with the byte in wData, although the hardware
\* filled the FIFO to 32 or above again after the successful poll.
C6_Witness ==
    /\ WriteReturned
    /\ ucall.spun
    /\ wData = ucall.arg
    /\ ucall.tx < 32
    /\ hw.tx >= 32

====
